---- MODULE Spec2Model ----
(***************************************************************************)
(* Gmail ingestion backend: the push-notification pipeline                 *)
(* (router.post('/gmail')), the worker pipeline (processEmailsWorker) with *)
(* its fire-and-forget AI summarisation, and the OAuth token refresh of    *)
(* GmailService.  Every await of the handlers is one step of the model, so *)
(* that concurrent requests interleave where the code can be suspended.    *)
(***************************************************************************)
EXTENDS Integers, Sequences, FiniteSets, Bags, TLC

\* ------------------------------------------------------------------ bounds
\* requests handled, each in a slot of its own, in any interleaving
MaxRuns == 2
\* messages the mailbox receives; message k is added by history record k
MaxMsgs == 2

\* concurrent operations of one user, each with a GmailService of its own
MaxOps == 2
\* the last instant of the clock
MaxNow == 2
\* the longest From header tried, the two of Scenario E apart
MaxLen == 5
\* watch subscriptions made, one after the other
MaxWatch == 2
\* the most parts a multipart node of a message has
MaxParts == 2

\* every successful insert of the worker triggers one task
MaxTasks == MaxRuns * MaxMsgs

Runs == 1..MaxRuns
Msgs == 1..MaxMsgs
Ops == 1..MaxOps

\* fiveMinutes = 5 * 60 * 1000 ms: the unit of the clock
FiveMinutes == 1
\* 3600 * 1000 ms, the lifetime of an access token
OneHour == 12
\* credentials.expiry_date undefined / users.token_expires_at IS NULL
NoExpiry == 0

\* users.watch_history_id IS NULL
NoCursor == 0

VARIABLES
    provHist,   \* Gmail: the mailbox's current historyId (= records so far)
    inbox,      \* Gmail: the messages that carry the INBOX label
    cursor,     \* users.watch_history_id of the user
    accessTok,  \* users.access_token is set
    refreshTok, \* users.refresh_token is set
    accounts,   \* gmail_accounts rows of the user, by email address
    emails,     \* emails table: a bag of rows
    tasks,      \* AI summarisation requests triggered by the worker
    run,        \* the request handled in each slot, with its local variables
    anyFault,   \* history: some database call has failed so far
    now,        \* the clock, in units of five minutes
    dbExpiry,   \* users.token_expires_at
    exchanges,  \* history: refresh-grant exchanges made with the provider
    op,         \* the GmailService of each concurrent operation
    kept,       \* history: the writes of the users row that came without a
                \* refresh token while one was stored
    from,       \* email.from of the message the loop is at, a sequence of
                \* characters
    sender,     \* senderName and senderEmail as the loop body computed them
    payload,    \* message.payload of the message parseEmailData is handed
    parsed,     \* emailContent and hasAttachments as parseEmailData computed them
    watchEnabled, \* users.watch_enabled
    watchSince, \* Gmail: the mailbox's historyId when the watch in force was set
    watchOp,    \* the watch subscription in progress: subscribeToGmailWatch
                \* after a login, or the renewal loop
    history,    \* historyResponse.data.history: the records, each with the ids
                \* of its messagesAdded
    fetched     \* what fetchEmailsSinceHistoryId returned for that listing

tokenVars == <<now, dbExpiry, exchanges, op, kept>>
senderVars == <<from, sender, payload, parsed>>
watchVars == <<watchEnabled, watchSince, watchOp>>
fetchVars == <<history, fetched>>
vars == <<provHist, inbox, cursor, accessTok, refreshTok, accounts, emails, tasks,
          run, anyFault, tokenVars, senderVars, fetchVars, watchVars>>

\* ------------------------------------------------------------ pure helpers

\* parseEmailData: the To header of a message is fixed by the message
RecipientOf(m) == m % 2

\* a listing that begins with the record of startHistoryId itself
HistoryListInclusive(start) ==
    IF start <= provHist THEN [k \in 1..(provHist - start + 1) |-> start + k - 1] ELSE <<>>

\* history.list(startHistoryId): the messages added by records after start
HistoryList(start) ==
    IF start < provHist THEN [k \in 1..(provHist - start) |-> start + k] ELSE <<>>

\* the rows of the emails table for (user, gmail_message_id), copies apart
RowsIn(table, m) == {<<row, k>> \in BagToSet(table) \X (1..BagCardinality(table)) :
                        row.msg = m /\ k <= CopiesIn(row, table)}

RowsOf(m) == RowsIn(emails, m)

\* emailExists: .single() gives data only for exactly one row; an error of
\* the query is caught and answered false
emailExists(m, err) == IF err THEN FALSE ELSE Cardinality(RowsOf(m)) = 1

\* an emails table without UNIQUE(gmail_account_id, gmail_message_id)
NoUniqueConstraint(acct, m) == FALSE

\* UNIQUE(gmail_account_id, gmail_message_id) of the emails table
UniqueViolation(acct, m) ==
    \E row \in BagToSet(emails) : row.acct = acct /\ row.msg = m

\* AIService.summarizeEmail: any failure of the completion call or of the
\* parse of its answer is caught and the fallback summary is returned
summarizeEmail(llmOk) == IF llmOk THEN "ai" ELSE "fallback"

RECURSIVE CopiesSum(_, _)
CopiesSum(rows, B) ==
    IF rows = {} THEN 0
    ELSE LET row == CHOOSE x \in rows : TRUE
         IN CopiesIn(row, B) + CopiesSum(rows \ {row}, B)

\* an update that does not look at the summary the row has
overwriteEmailAiSummary(m, s) ==
    LET Upd(row) == IF row.msg = m THEN [row EXCEPT !.summary = s] ELSE row
        rows == BagToSet(emails)
    IN [new \in {Upd(row) : row \in rows} |->
            CopiesSum({row \in rows : Upd(row) = new}, emails)]

\* EmailDbService.updateEmailAiSummary: the summary is written to the rows of
\* (user, gmail_message_id) whose summary is still null
updateEmailAiSummary(m, s) ==
    LET Upd(row) == IF row.msg = m /\ row.summary = "none"
                    THEN [row EXCEPT !.summary = s] ELSE row
        rows == BagToSet(emails)
    IN [new \in {Upd(row) : row \in rows} |->
            CopiesSum({row \in rows : Upd(row) = new}, emails)]

\* an insert whose error is never looked at
InsertedWhatever(db, acct, m) == TRUE

\* the insert of insertEmail returns the row unless the database reports an
\* error, a breach of the unique constraint included
Inserted(db, acct, m) == db = "ok" /\ ~UniqueViolation(acct, m)

\* a start at the notification's own historyId
startAtNotification(stored, hid) == IF stored # NoCursor THEN stored ELSE hid

\* storedHistoryId || (parseInt(historyId) - 1)
startHistoryId(stored, hid) == IF stored # NoCursor THEN stored ELSE hid - 1

Active(rec) == rec.pc \notin {"idle", "done"}

IdleRun ==
    [pc |-> "idle", kind |-> "webhook", envOk |-> TRUE, hid |-> 0,
     stored |-> NoCursor, start |-> 0, ids |-> <<>>, newEmails |-> <<>>,
     i |-> 0, imported |-> 0, skipped |-> 0, failed |-> 0,
     importedIds |-> <<>>, archived |-> 0, archiveFailed |-> 0,
     status |-> 0, success |-> FALSE, cause |-> "none",
     \* history variables of the verification, not read by the handlers
     overlap |-> FALSE, launched |-> {},
     \* 401 answers to history.list, forced refreshes that gave a token,
     \* retries of history.list
     unauth |-> 0, forced |-> 0, retried |-> 0,
     \* kinds of rejection of messages.modify after which the id was put in
     \* failed at once
     archNote |-> {},
     \* fetchEmailsSinceHistoryId returned; updates of users.watch_history_id
     \* issued by this request
     fetchOk |-> FALSE, writes |-> 0,
     \* the listed ids whose messages.get failed or did not parse
     dropped |-> {}]

\* res.status(code).json({success, ...}); return
Respond(rec, code, ok, why) ==
    [rec EXCEPT !.pc = "done", !.status = code, !.success = ok, !.cause = why,
                \* locals that die with the handler
                !.ids = <<>>, !.i = 0, !.importedIds = <<>>]

\* a handler that lets its failure reach the transport
ThrowToTransport(rec, why) == Respond(rec, 500, FALSE, why)

\* a failed fetch taken for a fetch that found nothing
FailureAsEmpty(rec, why) == [rec EXCEPT !.ids = <<>>, !.newEmails = <<>>, !.pc = "empty"]

\* a failure the handler does not treat itself: the webhook's outer catch
\* answers 200, processEmailsWorker throws and its route answers 500
Throw(rec, why) ==
    IF rec.kind = "webhook" THEN Respond(rec, 200, FALSE, why)
    ELSE Respond(rec, 500, FALSE, why)

\* the end of the per-message loop
LoopEnd(rec) ==
    IF rec.kind = "webhook"
    THEN [rec EXCEPT !.pc = IF rec.importedIds # <<>> THEN "archive" ELSE "advance"]
    ELSE Respond(rec, 200, TRUE, "complete")

\* an archive call whose failure ends the request
ArchiveGates(rec) ==
    IF rec.archiveFailed > 0 THEN Respond(rec, 200, FALSE, "archiveFailed")
    ELSE [rec EXCEPT !.pc = "advance"]

\* a catch of the archive call that leaves the counts as they were
ArchiveThrewUncounted(rec) == rec

\* catch of archiveEmails: every imported message counts as not archived
ArchiveThrew(rec) == [rec EXCEPT !.archiveFailed = Len(rec.importedIds)]

\* after the archive call, returned or caught: the cursor update is next
AfterArchive(rec) == [rec EXCEPT !.pc = "advance"]

\* newEmails.length === 0: the webhook goes on to store the historyId (an
\* await), processEmailsWorker returns zero counts at once
EmptyResult(rec) ==
    IF rec.kind = "webhook"
    THEN [rec EXCEPT !.ids = <<>>, !.newEmails = <<>>, !.pc = "empty"]
    ELSE Respond([rec EXCEPT !.ids = <<>>, !.newEmails = <<>>], 200, TRUE, "empty")

\* continue / the end of the loop body
AfterMessage(rec) ==
    IF rec.i < Len(rec.newEmails)
    THEN [rec EXCEPT !.i = rec.i + 1, !.pc = "exists"]
    ELSE LoopEnd(rec)

\* a trigger the loop would wait for
TriggerAiAwaited(rec, m) == [rec EXCEPT !.launched = @ \cup {m}, !.pc = "awaitAi"]

\* fetch(triggerAiUrl, ...).catch(...): the request is sent and not awaited,
\* the loop goes on with the next message
TriggerAi(rec, m) == AfterMessage([rec EXCEPT !.launched = @ \cup {m}])

\* one operation's GmailService: the position of the operation, the
\* expiry_date of its OAuth2Client, Date.now() as ensureValidToken read it
IdleOp == [pc |-> "idle", expiry |-> NoExpiry, at |-> 0, joined |-> FALSE,
           exchanged |-> FALSE, eventPending |-> FALSE,
           \* user.refresh_token as the request read it
           refresh |-> FALSE]

\* users.token_expires_at when the first operation starts
InitExpiries == NoExpiry..(MaxNow + FiveMinutes + 1)

pipeVars == <<provHist, inbox, cursor, accessTok, refreshTok, accounts, emails, tasks,
              run, anyFault>>

mailVars == <<provHist, inbox, cursor, accounts, emails, tasks, run, anyFault>>

\* ---------------------------------------------------------- sender parsing
\* the characters of the headers tried: a letter, and the characters the two
\* regular expressions tell apart
Chars == {"a", " ", "<", ">", "@", ".", "\""}

\* \w for the characters in use
WordChars == {"a", "J", "n", "e", "D", "o", "j", "x", "c", "m", "b", "r", "k"}
IsWord(c) == c \in WordChars
\* \s
IsSpace(c) == c = " "
\* [\w\.-]
IsAddrChar(c) == IsWord(c) \/ c \in {".", "-"}

\* let senderName: string | undefined = undefined
Undefined == <<"undefined">>

JaneDoeHeader ==
    <<"J", "a", "n", "e", " ", "D", "o", "e", " ", "<",
      "j", "a", "n", "e", "@", "x", ".", "c", "o", "m", ">">>
BrokenHeader == <<"b", "r", "o", "k", "e", "n">>

\* the headers tried: every sequence of Chars up to MaxLen, the empty header,
\* and the two headers of Scenario E
Headers ==
    UNION {[1..n -> Chars] : n \in 0..MaxLen} \cup {JaneDoeHeader, BrokenHeader}

\* String.prototype.trim
RECURSIVE TrimLeft(_)
TrimLeft(s) == IF s # <<>> /\ IsSpace(Head(s)) THEN TrimLeft(Tail(s)) ELSE s
RECURSIVE TrimRight(_)
TrimRight(s) ==
    IF s # <<>> /\ IsSpace(s[Len(s)]) THEN TrimRight(SubSeq(s, 1, Len(s) - 1)) ELSE s
Trim(s) == TrimRight(TrimLeft(s))

\* .replace(/"/g, '')
StripQuotes(s) == SelectSeq(s, LAMBDA c : c # "\"")

\* the ways /^(.+?)\s*<(.+?)>$/ can match s: <<p, q>> with group 1 = s[1..p],
\* white space from p+1 to q-1, "<" at q, group 2 = s[q+1..Len(s)-1], ">" last
NameMatches(s) ==
    {pq \in (1..Len(s)) \X (1..Len(s)) :
        /\ pq[1] < pq[2]
        /\ \A k \in (pq[1] + 1)..(pq[2] - 1) : IsSpace(s[k])
        /\ s[pq[2]] = "<"
        /\ pq[2] + 1 <= Len(s) - 1
        /\ s[Len(s)] = ">"}

\* the match the engine returns: the lazy group 1 is the shortest one
NameMatch(s) ==
    CHOOSE pq \in NameMatches(s) : \A other \in NameMatches(s) : pq[1] <= other[1]

\* the ways /[\w\.-]+@[\w\.-]+\.\w+/ can match s from position i: <<a, k>>
\* with "@" at a after s[i..a-1], and "." at k followed by a word character,
\* s[a+1..k-1] not empty
AddrMatchesAt(s, i) ==
    {ak \in (1..Len(s)) \X (1..Len(s)) :
        /\ i < ak[1] /\ s[ak[1]] = "@"
        /\ \A j \in i..(ak[1] - 1) : IsAddrChar(s[j])
        /\ ak[1] + 2 <= ak[2] /\ ak[2] < Len(s)
        /\ \A j \in (ak[1] + 1)..(ak[2] - 1) : IsAddrChar(s[j])
        /\ s[ak[2]] = "." /\ IsWord(s[ak[2] + 1])}

\* the end of the run of word characters that starts at k
RECURSIVE WordRunEnd(_, _)
WordRunEnd(s, k) ==
    IF k < Len(s) /\ IsWord(s[k + 1]) THEN WordRunEnd(s, k + 1) ELSE k

\* emailMatch[0]: the leftmost match, each greedy part as long as it can be
AddrMatch(s) ==
    LET starts == {i \in 1..Len(s) : AddrMatchesAt(s, i) # {}}
        i == CHOOSE x \in starts : \A y \in starts : x <= y
        ak == CHOOSE x \in AddrMatchesAt(s, i) : \A y \in AddrMatchesAt(s, i) : y[2] <= x[2]
    IN IF starts = {} THEN Undefined
       ELSE SubSeq(s, i, WordRunEnd(s, ak[2] + 1))

\* a loop body that stores the header as it came
RawSender(s) == [senderName |-> Undefined, senderEmail |-> s]

\* the loop body from "let senderEmail = email.from || ''" to the end of
\* "if (email.from)"
ExtractSender(s) ==
    IF s = <<>> THEN [senderName |-> Undefined, senderEmail |-> <<>>]
    ELSE IF NameMatches(s) # {}
    THEN LET pq == NameMatch(s)
         IN [senderName |-> StripQuotes(Trim(SubSeq(s, 1, pq[1]))),
             senderEmail |-> Trim(SubSeq(s, pq[2] + 1, Len(s) - 1))]
    ELSE IF AddrMatch(s) # Undefined
    THEN [senderName |-> Undefined, senderEmail |-> AddrMatch(s)]
    ELSE [senderName |-> Undefined, senderEmail |-> s]

\* no header has been looked at
Unparsed == [senderName |-> Undefined, senderEmail |-> Undefined]

\* ------------------------------------------------------------------- Init
\* the token state while the pipelines are looked at on their own
TokensAtRest ==
    /\ now = 0
    /\ dbExpiry = NoExpiry
    /\ exchanges = 0
    /\ op = [o \in Ops |-> IdleOp]
    /\ kept = {}

PipelineAtRest ==
    /\ provHist = 0
    /\ inbox = {}
    /\ cursor = NoCursor
    /\ accessTok \in BOOLEAN
    /\ refreshTok \in BOOLEAN
    /\ accounts = {}
    /\ emails = EmptyBag
    /\ tasks = <<>>
    /\ run = [r \in Runs |-> IdleRun]
    /\ anyFault = FALSE

\* ------------------------------------------------------------ message parts
\* a part without parts: its mimeType, its body.data (0: none, else the
\* content it encodes), whether it has a non-empty filename
Leaf(mime, data, named) == [mime |-> mime, data |-> data, named |-> named, parts |-> <<>>]
\* a multipart part
Node(children) == [mime |-> "multipart", data |-> 0, named |-> FALSE, parts |-> children]

Leaves ==
    {Leaf(m, d, FALSE) : m \in {"text/plain", "text/html"}, d \in {0, 1, 2}}
        \cup {Leaf("other", d, n) : d \in {0, 1}, n \in BOOLEAN}
PartLists(S) == UNION {[1..n -> S] : n \in 1..MaxParts}
Nested1 == {Node(c) : c \in PartLists(Leaves)}
Nested2 == {Node(c) : c \in PartLists(Leaves \cup Nested1)}
\* the payloads tried: single parts and multipart trees two levels deep
Payloads == Leaves \cup Nested1 \cup Nested2

\* '' and Buffer.from(part.body.data, 'base64').toString('utf-8')
NoContent == [mime |-> "none", id |-> 0]
Decode(part) == [mime |-> part.mime, id |-> part.data]
\* stripHtmlTags(htmlContent)
stripHtmlTags(c) == [mime |-> "stripped", id |-> c.id]

\* the first loop of extractEmailContent over the first k parts: every part
\* of the kind with body.data assigns the content
RECURSIVE DirectContent(_, _, _)
DirectContent(parts, k, mime) ==
    IF k = 0 THEN NoContent
    ELSE IF parts[k].mime = mime /\ parts[k].data # 0 THEN Decode(parts[k])
    ELSE DirectContent(parts, k - 1, mime)

\* extractEmailContent(payload), payload not null
RECURSIVE extractEmailContent(_)
extractEmailContent(p) ==
    LET ps == p.parts
        directText == DirectContent(ps, Len(ps), "text/plain")
        directHtml == DirectContent(ps, Len(ps), "text/html")
        \* the second loop, entered when the first found nothing: the first
        \* nested part that yields html, the first that yields text
        nested == [k \in 1..Len(ps) |->
                     IF ps[k].parts # <<>> THEN extractEmailContent(ps[k])
                     ELSE [html |-> NoContent, text |-> NoContent]]
        withHtml == {k \in 1..Len(ps) : nested[k].html # NoContent}
        withText == {k \in 1..Len(ps) : nested[k].text # NoContent}
        First(S) == CHOOSE k \in S : \A j \in S : k <= j
        goDeep == ps # <<>> /\ directText = NoContent /\ directHtml = NoContent
        html1 == IF goDeep /\ withHtml # {} THEN nested[First(withHtml)].html ELSE directHtml
        text1 == IF goDeep /\ withText # {} THEN nested[First(withText)].text ELSE directText
        \* no parts found anything: payload.body.data itself
        own == html1 = NoContent /\ text1 = NoContent /\ p.data # 0
        html2 == IF own /\ p.mime = "text/html" THEN Decode(p) ELSE html1
        text2 == IF own /\ p.mime # "text/html" THEN Decode(p) ELSE text1
    IN [html |-> html2,
        text |-> IF html2 # NoContent /\ text2 = NoContent THEN stripHtmlTags(html2)
                 ELSE text2]

\* hasAttachments(payload), payload not null
hasAttachments(p) ==
    IF p.parts # <<>> THEN \E k \in 1..Len(p.parts) : p.parts[k].named
    ELSE p.named

\* no payload has been looked at
NotParsed == [html |-> NoContent, text |-> NoContent, hasAttachments |-> FALSE,
              seen |-> FALSE]

\* parseEmailData: hasAttachments and extractEmailContent of message.payload
parseEmailData(p) ==
    [html |-> extractEmailContent(p).html,
     text |-> extractEmailContent(p).text,
     hasAttachments |-> hasAttachments(p),
     seen |-> TRUE]

SenderAtRest ==
    /\ from = <<>>
    /\ sender = Unparsed
    /\ payload = Leaf("other", 0, FALSE)
    /\ parsed = NotParsed

\* fetchEmailsSinceHistoryId has not run
NotFetched == [seen |-> FALSE, emails |-> <<>>]

FetchAtRest ==
    /\ history = <<>>
    /\ fetched = NotFetched

\* no watch has been asked for
NoWatch == 0

\* the locals of a watch subscription: its position, who runs it, the
\* historyId getCurrentHistoryId returned, subscriptions started so far
IdleWatch == [pc |-> "idle", kind |-> "login", hid |-> 0, n |-> 0, ok |-> FALSE]

\* users.watch_enabled BOOLEAN DEFAULT FALSE
WatchAtRest ==
    /\ watchEnabled = FALSE
    /\ watchSince = NoWatch
    /\ watchOp = IdleWatch

Init == PipelineAtRest /\ TokensAtRest /\ SenderAtRest /\ WatchAtRest /\ FetchAtRest

\* a message with some From header is at the head of the loop
InitSender ==
    /\ PipelineAtRest
    /\ TokensAtRest
    /\ from \in Headers
    /\ sender = Unparsed
    /\ payload = Leaf("other", 0, FALSE)
    /\ parsed = NotParsed
    /\ WatchAtRest
    /\ FetchAtRest

InitToken ==
    /\ PipelineAtRest
    /\ now = 0
    /\ dbExpiry \in InitExpiries
    /\ exchanges = 0
    /\ op = [o \in Ops |-> IdleOp]
    /\ kept = {}
    /\ SenderAtRest
    /\ WatchAtRest
    /\ FetchAtRest

\* ------------------------------------------------------------ environment
\* a new message reaches the mailbox: one more history record
Arrive ==
    /\ provHist < MaxMsgs
    /\ provHist' = provHist + 1
    /\ inbox' = inbox \cup {provHist + 1}
    /\ UNCHANGED <<cursor, accessTok, refreshTok, accounts, emails, tasks, run, anyFault, tokenVars, senderVars, fetchVars, watchVars>>

\* ------------------------------------------------- notification webhook
\* the request arrives and its envelope is parsed, up to the user lookup
Receive(r) ==
    /\ run[r].pc = "idle"
    /\ provHist >= 1
    /\ \E env \in {"unwrapped", "wrapped", "badJson", "badFormat", "missingField",
                   "emptyBody", "challenge"},
          h \in 1..provHist :
         LET fresh == [IdleRun EXCEPT
                          !.hid = h,
                          !.overlap = \E q \in Runs \ {r} : Active(run[q])]
             rec == CASE env \in {"unwrapped", "wrapped"} ->
                            [fresh EXCEPT !.pc = "lookup"]
                      [] env \in {"emptyBody", "challenge"} ->
                            Respond(fresh, 200, TRUE, "health")
                      [] OTHER ->
                            Respond([fresh EXCEPT !.envOk = FALSE], 400, FALSE, "envelope")
         IN run' = [q \in Runs |->
                      IF q = r THEN rec
                      ELSE IF Active(run[q]) /\ Active(rec)
                           THEN [run[q] EXCEPT !.overlap = TRUE]
                           ELSE run[q]]
    /\ UNCHANGED <<provHist, inbox, cursor, accessTok, refreshTok, accounts, emails, tasks, anyFault, tokenVars, senderVars, fetchVars, watchVars>>

\* the users row is read: tokens and the stored historyId
Lookup(r) ==
    /\ run[r].pc = "lookup"
    /\ run[r].kind = "webhook"
    /\ \E found \in BOOLEAN :
         run' = [run EXCEPT ![r] =
                   IF ~found THEN Respond(@, 200, FALSE, "userNotFound")
                   ELSE IF ~accessTok THEN Respond(@, 200, FALSE, "noAccessToken")
                   ELSE IF ~refreshTok THEN Respond(@, 200, FALSE, "noRefreshToken")
                   ELSE [@ EXCEPT !.pc = "history",
                                  !.stored = cursor,
                                  !.start = startHistoryId(cursor, run[r].hid)]]
    /\ UNCHANGED <<provHist, inbox, cursor, accessTok, refreshTok, accounts, emails, tasks, anyFault, tokenVars, senderVars, fetchVars, watchVars>>

\* fetchEmailsSinceHistoryId, first part: history.list
History(r) ==
    /\ run[r].pc = "history"
    /\ \E outcome \in {"ok", "expired", "error", "unauthorized"} :
         run' = [run EXCEPT ![r] =
                   CASE outcome = "ok" ->
                          IF HistoryList(@.start) = <<>>
                          THEN EmptyResult([@ EXCEPT !.fetchOk = TRUE])
                          ELSE [@ EXCEPT !.ids = HistoryList(run[r].start), !.pc = "get"]
                     [] outcome = "unauthorized" ->
                          [@ EXCEPT !.unauth = 1, !.pc = "retry"]
                     [] OTHER ->
                          Throw(@, IF outcome = "expired" THEN "historyExpired"
                                   ELSE "fetchFailed")]
    /\ UNCHANGED <<provHist, inbox, cursor, accessTok, refreshTok, accounts, emails, tasks, anyFault, tokenVars, senderVars, fetchVars, watchVars>>

\* fetchEmailsSinceHistoryId, catch of a 401: the access token is dropped,
\* ensureValidToken refreshes, history.list is called once more; whatever
\* fails now ends the fetch
HistoryRetry(r) ==
    /\ run[r].pc = "retry"
    /\ \E refreshed \in BOOLEAN, outcome \in {"ok", "error", "unauthorized"} :
         run' = [run EXCEPT ![r] =
                   CASE ~refreshed -> Throw(@, "fetchFailed")
                     [] outcome = "ok" ->
                          IF HistoryList(@.start) = <<>>
                          THEN EmptyResult([@ EXCEPT !.forced = 1, !.retried = 1,
                                                     !.fetchOk = TRUE])
                          ELSE [@ EXCEPT !.forced = 1, !.retried = 1,
                                         !.ids = HistoryList(run[r].start), !.pc = "get"]
                     [] OTHER ->
                          Throw([@ EXCEPT !.forced = 1, !.retried = 1,
                                          !.unauth = IF outcome = "unauthorized" THEN 2
                                                     ELSE 1],
                                "fetchFailed")]
    /\ UNCHANGED <<provHist, inbox, cursor, accessTok, refreshTok, accounts, emails, tasks, anyFault, tokenVars, senderVars, fetchVars, watchVars>>

\* a fetch that reports the ids it could not get as failed messages
CountedAsFailed(lost) == Cardinality(lost)

\* catch of one messages.get: logged, null returned, filtered out; no counter
\* of the caller is touched
FailedGets(lost) == 0

\* fetchEmailsSinceHistoryId, second part: messages.get of every id, the
\* failed ones dropped, then the INBOX filter
Get(r) ==
    /\ run[r].pc = "get"
    /\ \E lost \in SUBSET {run[r].ids[k] : k \in 1..Len(run[r].ids)} :
         LET got == SelectSeq(run[r].ids, LAMBDA m : m \notin lost /\ m \in inbox)
         IN run' = [run EXCEPT ![r] =
                      IF got = <<>>
                      THEN EmptyResult([@ EXCEPT !.fetchOk = TRUE, !.dropped = lost,
                                                 !.failed = FailedGets(lost)])
                      ELSE [@ EXCEPT !.ids = <<>>, !.newEmails = got, !.i = 1,
                                     !.fetchOk = TRUE, !.dropped = lost,
                                     !.failed = FailedGets(lost), !.pc = "exists"]]
    /\ UNCHANGED <<provHist, inbox, cursor, accessTok, refreshTok, accounts, emails, tasks, anyFault, tokenVars, senderVars, fetchVars, watchVars>>

\* no new emails: the historyId is stored all the same
Empty(r) ==
    /\ run[r].pc = "empty"
    /\ \E db \in {"ok", "error", "throw"} :
         /\ cursor' = IF db = "ok" THEN run[r].hid ELSE cursor
         /\ run' = [run EXCEPT ![r] =
                      IF db = "throw"
                      THEN Respond([@ EXCEPT !.writes = @ + 1], 200, FALSE, "exception")
                      ELSE Respond([@ EXCEPT !.writes = @ + 1], 200, TRUE, "empty")]
         /\ anyFault' = (anyFault \/ db # "ok")
    /\ UNCHANGED <<provHist, inbox, accessTok, refreshTok, accounts, emails, tasks, tokenVars, senderVars, fetchVars, watchVars>>

\* loop body: emailExists(user, email.id)
Exists(r) ==
    /\ run[r].pc = "exists"
    /\ \E err \in BOOLEAN :
         LET m == run[r].newEmails[run[r].i]
         IN /\ run' = [run EXCEPT ![r] =
                         IF emailExists(m, err)
                         THEN AfterMessage([@ EXCEPT !.skipped = @ + 1])
                         ELSE [@ EXCEPT !.pc = "insExists"]]
            /\ anyFault' = (anyFault \/ (err /\ RowsOf(m) # {}))
    /\ UNCHANGED <<provHist, inbox, cursor, accessTok, refreshTok, accounts, emails, tasks, tokenVars, senderVars, fetchVars, watchVars>>

\* insertEmail: its own emailExists; an existing row makes it return null
InsertExists(r) ==
    /\ run[r].pc = "insExists"
    /\ \E err \in BOOLEAN :
         LET m == run[r].newEmails[run[r].i]
         IN /\ run' = [run EXCEPT ![r] =
                         IF emailExists(m, err)
                         THEN AfterMessage([@ EXCEPT !.skipped = @ + 1])
                         ELSE [@ EXCEPT !.pc = "acctFind"]]
            /\ anyFault' = (anyFault \/ (err /\ RowsOf(m) # {}))
    /\ UNCHANGED <<provHist, inbox, cursor, accessTok, refreshTok, accounts, emails, tasks, tokenVars, senderVars, fetchVars, watchVars>>

\* getOrCreateGmailAccount: the select
AccountFind(r) ==
    /\ run[r].pc = "acctFind"
    /\ \E err \in BOOLEAN :
         LET a == RecipientOf(run[r].newEmails[run[r].i])
         IN /\ run' = [run EXCEPT ![r] =
                         IF a \in accounts THEN [@ EXCEPT !.pc = "insert"]
                         ELSE IF err THEN AfterMessage([@ EXCEPT !.failed = @ + 1])
                         ELSE [@ EXCEPT !.pc = "acctCreate"]]
            /\ anyFault' = (anyFault \/ (err /\ a \notin accounts))
    /\ UNCHANGED <<provHist, inbox, cursor, accessTok, refreshTok, accounts, emails, tasks, tokenVars, senderVars, fetchVars, watchVars>>

\* getOrCreateGmailAccount: the insert, under UNIQUE(user_id, email)
AccountCreate(r) ==
    /\ run[r].pc = "acctCreate"
    /\ LET a == RecipientOf(run[r].newEmails[run[r].i])
       IN IF a \in accounts
          THEN /\ run' = [run EXCEPT ![r] = AfterMessage([@ EXCEPT !.failed = @ + 1])]
               /\ UNCHANGED accounts
          ELSE /\ run' = [run EXCEPT ![r].pc = "insert"]
               /\ accounts' = accounts \cup {a}
    /\ UNCHANGED <<provHist, inbox, cursor, accessTok, refreshTok, emails, tasks, anyFault, tokenVars, senderVars, fetchVars, watchVars>>

\* insertEmail: the insert itself, then the handler's bookkeeping; the worker
\* triggers the AI summarisation of the imported message
Insert(r) ==
    /\ run[r].pc = "insert"
    /\ \E db \in {"ok", "error"} :
         LET m == run[r].newEmails[run[r].i]
             a == RecipientOf(m)
             stored == Inserted(db, a, m)
         IN /\ emails' = IF stored
                         THEN emails (+) SetToBag({[msg |-> m, acct |-> a, summary |-> "none"]})
                         ELSE emails
            /\ tasks' = IF stored /\ run[r].kind = "worker"
                        THEN Append(tasks, [msg |-> m, by |-> r, st |-> "sent",
                                            llmFailed |-> FALSE, result |-> "none"])
                        ELSE tasks
            /\ run' = [run EXCEPT ![r] =
                         IF ~stored THEN AfterMessage([@ EXCEPT !.failed = @ + 1])
                         ELSE IF @.kind = "webhook"
                              THEN AfterMessage([@ EXCEPT !.imported = @ + 1,
                                                          !.importedIds = Append(@, m)])
                              ELSE TriggerAi([@ EXCEPT !.imported = @ + 1], m)]
            /\ anyFault' = (anyFault \/ db = "error")
    /\ UNCHANGED <<provHist, inbox, cursor, accessTok, refreshTok, accounts, tokenVars, senderVars, fetchVars, watchVars>>

\* archiveEmails(importedEmailIds): INBOX removed per id, each on its own;
\* a failing ensureValidToken makes the whole call throw
Archive(r) ==
    /\ run[r].pc = "archive"
    /\ LET ids == {run[r].importedIds[k] : k \in 1..Len(run[r].importedIds)}
       IN \/ /\ run' = [run EXCEPT ![r] = AfterArchive(ArchiveThrew(@))]
             /\ UNCHANGED inbox
          \/ \E ok \in SUBSET ids, why \in SUBSET {"denied", "stale", "other"} :
               /\ (why = {}) <=> (ok = ids)
               /\ Cardinality(why) <= Cardinality(ids \ ok)
               /\ inbox' = inbox \ ok
               /\ run' = [run EXCEPT ![r] =
                            AfterArchive([@ EXCEPT !.archived = Cardinality(ok),
                                                   !.archiveFailed = Cardinality(ids \ ok),
                                                   !.archNote = why \ {"other"}])]
    /\ UNCHANGED <<provHist, cursor, accessTok, refreshTok, accounts, emails, tasks, anyFault, tokenVars, senderVars, fetchVars, watchVars>>

\* the stored historyId is set to the notification's, then the 200 response
Advance(r) ==
    /\ run[r].pc = "advance"
    /\ \E db \in {"ok", "error"} :
         /\ cursor' = IF db = "ok" THEN run[r].hid ELSE cursor
         /\ run' = [run EXCEPT ![r] =
                      Respond([@ EXCEPT !.writes = @ + 1], 200, TRUE, "complete")]
         /\ anyFault' = (anyFault \/ db # "ok")
    /\ UNCHANGED <<provHist, inbox, accessTok, refreshTok, accounts, emails, tasks, tokenVars, senderVars, fetchVars, watchVars>>

\* ------------------------------------------------------ worker pipeline
\* POST /process-emails: the body is validated and processEmailsWorker is
\* called, up to its read of the users row
WorkerReceive(r) ==
    /\ run[r].pc = "idle"
    /\ provHist >= 1
    /\ \E bodyOk \in BOOLEAN, h \in 1..provHist, prev \in 0..provHist :
         LET fresh == [IdleRun EXCEPT
                          !.kind = "worker", !.hid = h, !.stored = prev,
                          !.overlap = \E q \in Runs \ {r} : Active(run[q])]
             rec == IF bodyOk THEN [fresh EXCEPT !.pc = "lookup"]
                    ELSE Respond([fresh EXCEPT !.envOk = FALSE], 400, FALSE, "envelope")
         IN run' = [q \in Runs |->
                      IF q = r THEN rec
                      ELSE IF Active(run[q]) /\ Active(rec)
                           THEN [run[q] EXCEPT !.overlap = TRUE]
                           ELSE run[q]]
    /\ UNCHANGED <<provHist, inbox, cursor, accessTok, refreshTok, accounts, emails, tasks,
                   anyFault, tokenVars, senderVars, fetchVars, watchVars>>

\* processEmailsWorker: the tokens are read, startHistoryId is computed
WorkerLookup(r) ==
    /\ run[r].pc = "lookup"
    /\ run[r].kind = "worker"
    /\ \E found \in BOOLEAN :
         run' = [run EXCEPT ![r] =
                   IF ~found \/ ~accessTok THEN Throw(@, "noAccessToken")
                   ELSE IF ~refreshTok THEN Throw(@, "noRefreshToken")
                   ELSE [@ EXCEPT !.pc = "history",
                                  !.start = startHistoryId(run[r].stored, run[r].hid)]]
    /\ UNCHANGED <<provHist, inbox, cursor, accessTok, refreshTok, accounts, emails, tasks,
                   anyFault, tokenVars, senderVars, fetchVars, watchVars>>

\* ------------------------------------------------- AI summarisation task
\* a rejection that reaches the catch of the loop body: failed++
TriggerErrorEscapes(rec) == [rec EXCEPT !.failed = @ + 1]

\* .catch(aiTriggerError => console.error(...)): the rejection is logged, the
\* job that sent the request is left as it is
CatchTrigger(rec) == rec

\* the trigger request never reaches /ai-summarize: fetch rejects, .catch logs
TriggerFails(t) ==
    /\ t \in 1..Len(tasks)
    /\ tasks[t].st = "sent"
    /\ tasks' = [tasks EXCEPT ![t].st = "lost"]
    /\ run' = [run EXCEPT ![tasks[t].by] = CatchTrigger(@)]
    /\ UNCHANGED <<provHist, inbox, cursor, accessTok, refreshTok, accounts, emails,
                   anyFault, tokenVars, senderVars, fetchVars, watchVars>>

\* POST /ai-summarize is sent once more for a message that has had its
\* request: the route serves whatever request reaches it
Redeliver(t) ==
    /\ t \in 1..Len(tasks)
    /\ Len(tasks) < MaxTasks
    /\ \A u \in 1..Len(tasks) : tasks[u].msg = tasks[t].msg => u <= t
    /\ tasks' = Append(tasks, [msg |-> tasks[t].msg, by |-> tasks[t].by, st |-> "sent",
                               llmFailed |-> FALSE, result |-> "none"])
    /\ UNCHANGED <<provHist, inbox, cursor, accessTok, refreshTok, accounts, emails,
                   run, anyFault, tokenVars, senderVars, fetchVars, watchVars>>

\* POST /ai-summarize up to the database update: new AIService(), which throws
\* without an API key (answer 500), then aiService.summarizeEmail
Summarize(t) ==
    /\ t \in 1..Len(tasks)
    /\ tasks[t].st = "sent"
    /\ \E hasKey \in BOOLEAN, llmOk \in BOOLEAN :
         tasks' = [tasks EXCEPT ![t] =
                     IF ~hasKey THEN [@ EXCEPT !.st = "failed"]
                     ELSE [@ EXCEPT !.st = "update",
                                    !.llmFailed = ~llmOk,
                                    !.result = summarizeEmail(llmOk)]]
    /\ UNCHANGED <<provHist, inbox, cursor, accessTok, refreshTok, accounts, emails,
                   run, anyFault, tokenVars, senderVars, fetchVars, watchVars>>

\* POST /ai-summarize: updateEmailAiSummary and the response
UpdateSummary(t) ==
    /\ t \in 1..Len(tasks)
    /\ tasks[t].st = "update"
    /\ \E db \in {"ok", "error"} :
         /\ emails' = IF db = "ok"
                      THEN updateEmailAiSummary(tasks[t].msg, tasks[t].result)
                      ELSE emails
         /\ tasks' = [tasks EXCEPT ![t].st = IF db = "ok" THEN "saved" ELSE "failed"]
         /\ anyFault' = (anyFault \/ db # "ok")
    /\ UNCHANGED <<provHist, inbox, cursor, accessTok, refreshTok, accounts, run, tokenVars, senderVars, fetchVars, watchVars>>

\* ---------------------------------------------------------- token refresh
\* ensureValidToken's test on the credentials of this GmailService
needsRefresh(expiryDate, at) == expiryDate = NoExpiry \/ expiryDate <= at + FiveMinutes

\* the update of the users row by tokenRefreshCallback
WriteBack(db) == IF db = "ok" THEN now + OneHour ELSE dbExpiry

\* a write that stores whatever refresh token the grant carried
RefreshTokenAsGranted(granted, old) == granted

\* newTokens.refresh_token || user.refresh_token, and the strategy's
\* if (refreshToken) updateData.refresh_token = refreshToken
RefreshTokenWritten(granted, old) == granted \/ old

\* what a write without a refresh token adds to the history
Keeps(kind, granted) == IF ~granted /\ refreshTok THEN kept \cup {kind} ELSE kept

Tick ==
    /\ now < MaxNow
    /\ now' = now + 1
    /\ UNCHANGED <<pipeVars, senderVars, fetchVars, watchVars, dbExpiry, exchanges, op, kept>>

\* the users row is read, a GmailService is built from it and ensureValidToken
\* runs up to its await of getAccessToken
OpStart(o) ==
    /\ op[o].pc = "idle"
    /\ op' = [op EXCEPT ![o] =
                IF ~accessTok \/ ~refreshTok THEN [@ EXCEPT !.pc = "rejected"]
                ELSE IF needsRefresh(dbExpiry, now)
                THEN [@ EXCEPT !.pc = "exchange", !.expiry = dbExpiry, !.at = now,
                               !.refresh = refreshTok,
                               !.joined = \E p \in Ops \ {o} : op[p].pc = "exchange"]
                ELSE [@ EXCEPT !.pc = "done", !.expiry = dbExpiry, !.at = now,
                               !.refresh = refreshTok]]
    /\ UNCHANGED <<pipeVars, senderVars, fetchVars, watchVars, now, dbExpiry, exchanges, kept>>

\* oauth2Client.getAccessToken(): the client exchanges the refresh token when
\* its expiry_date is set and near, and emits 'tokens'; with no expiry_date
\* it hands back the access token it holds
Exchange(o) ==
    /\ op[o].pc = "exchange"
    /\ IF op[o].expiry # NoExpiry
       THEN \E granted \in BOOLEAN :
              /\ exchanges' = exchanges + 1
              /\ op' = [op EXCEPT ![o] =
                          IF granted
                          THEN [@ EXCEPT !.pc = "callback", !.expiry = now + OneHour,
                                         !.exchanged = TRUE, !.eventPending = TRUE]
                          ELSE [@ EXCEPT !.pc = "failed", !.exchanged = TRUE]]
       ELSE /\ exchanges' = exchanges
            /\ op' = [op EXCEPT ![o] =
                        [@ EXCEPT !.pc = "callback", !.expiry = op[o].at + OneHour]]
    /\ UNCHANGED <<pipeVars, senderVars, fetchVars, watchVars, now, dbExpiry, kept>>

\* the awaited tokenRefreshCallback, handed the refresh token of the
\* OAuth2Client's credentials; its failure is logged
Callback(o) ==
    /\ op[o].pc = "callback"
    /\ \E db \in {"ok", "error"} :
         /\ dbExpiry' = WriteBack(db)
         /\ refreshTok' = IF db = "ok"
                          THEN RefreshTokenWritten(op[o].refresh, op[o].refresh)
                          ELSE refreshTok
         /\ kept' = IF db = "ok" THEN Keeps("callback", op[o].refresh) ELSE kept
    /\ op' = [op EXCEPT ![o].pc = "done"]
    /\ UNCHANGED <<mailVars, senderVars, fetchVars, watchVars, accessTok, now, exchanges>>

\* the 'tokens' listener of the constructor: the same callback, not awaited,
\* handed tokens.refresh_token || undefined
EventCallback(o) ==
    /\ op[o].eventPending
    /\ \E db \in {"ok", "error"}, granted \in BOOLEAN :
         /\ dbExpiry' = WriteBack(db)
         /\ refreshTok' = IF db = "ok"
                          THEN RefreshTokenWritten(granted, op[o].refresh)
                          ELSE refreshTok
         /\ kept' = IF db = "ok" THEN Keeps("event", granted) ELSE kept
    /\ op' = [op EXCEPT ![o].eventPending = FALSE]
    /\ UNCHANGED <<mailVars, senderVars, fetchVars, watchVars, accessTok, now, exchanges>>

\* a login of the existing user through the Google strategy: the access
\* token is replaced, the refresh token only when Google sent one
Login ==
    /\ \E db \in {"ok", "error"}, granted \in BOOLEAN :
         /\ accessTok' = (db = "ok" \/ accessTok)
         /\ refreshTok' = IF db = "ok" THEN RefreshTokenWritten(granted, refreshTok)
                          ELSE refreshTok
         /\ dbExpiry' = WriteBack(db)
         /\ kept' = IF db = "ok" THEN Keeps("login", granted) ELSE kept
    /\ UNCHANGED <<mailVars, senderVars, fetchVars, watchVars, now, exchanges, op>>


Next ==
    \/ Arrive
    \/ \E r \in Runs : Receive(r)
    \/ \E r \in Runs : Lookup(r)
    \/ \E r \in Runs : History(r)
    \/ \E r \in Runs : HistoryRetry(r)
    \/ \E r \in Runs : Get(r)
    \/ \E r \in Runs : Empty(r)
    \/ \E r \in Runs : Exists(r)
    \/ \E r \in Runs : InsertExists(r)
    \/ \E r \in Runs : AccountFind(r)
    \/ \E r \in Runs : AccountCreate(r)
    \/ \E r \in Runs : Insert(r)
    \/ \E r \in Runs : Archive(r)
    \/ \E r \in Runs : Advance(r)

Spec == Init /\ [][Next]_vars

NextWorker ==
    \/ Arrive
    \/ \E r \in Runs : WorkerReceive(r)
    \/ \E r \in Runs : WorkerLookup(r)
    \/ \E r \in Runs : History(r)
    \/ \E r \in Runs : HistoryRetry(r)
    \/ \E r \in Runs : Get(r)
    \/ \E r \in Runs : Exists(r)
    \/ \E r \in Runs : InsertExists(r)
    \/ \E r \in Runs : AccountFind(r)
    \/ \E r \in Runs : AccountCreate(r)
    \/ \E r \in Runs : Insert(r)
    \/ \E t \in 1..MaxTasks : TriggerFails(t)
    \/ \E t \in 1..MaxTasks : Summarize(t)
    \/ \E t \in 1..MaxTasks : UpdateSummary(t)

SpecWorker == Init /\ [][NextWorker]_vars

\* -------------------------------------------------------- watch subscription
\* a mailbox that has history when the user connects it: one record, its
\* message in the inbox or not
InitWatch ==
    /\ provHist = 1
    /\ inbox \in {{}, {1}}
    /\ cursor = NoCursor
    /\ accessTok \in BOOLEAN
    /\ refreshTok \in BOOLEAN
    /\ accounts = {}
    /\ emails = EmptyBag
    /\ tasks = <<>>
    /\ run = [r \in Runs |-> IdleRun]
    /\ anyFault = FALSE
    /\ TokensAtRest
    /\ SenderAtRest
    /\ WatchAtRest
    /\ FetchAtRest

\* a subscription that stores the mailbox's historyId as it is when the
\* users row is written
HistoryIdAtStore(before, atStore) == atStore

\* subscribeToWatch returns the historyId it read before gmail.users.watch,
\* and the caller stores watchResult.historyId
WatchBaseline(before, atStore) == before

\* subscribeToGmailWatch after a login, or the renewal loop for a user whose
\* watch_enabled is true: the users row is read; without an access token
\* nothing is written
WatchStart ==
    /\ watchOp.pc \in {"idle", "done"}
    /\ watchOp.n < MaxWatch
    /\ \E k \in {"login", "renewal"} :
         /\ k = "renewal" => watchEnabled
         /\ watchOp' = [IdleWatch EXCEPT !.kind = k, !.n = watchOp.n + 1,
                                         !.pc = IF accessTok THEN "profile" ELSE "done"]
    /\ UNCHANGED <<pipeVars, tokenVars, senderVars, fetchVars, watchEnabled, watchSince>>

\* subscribeToWatch: ensureValidToken, which throws when it has no refresh
\* token (no expiry_date was set), then getCurrentHistoryId
WatchProfile ==
    /\ watchOp.pc = "profile"
    /\ \E outcome \in {"ok", "error"} :
         watchOp' = IF outcome = "ok" /\ refreshTok
                    THEN [watchOp EXCEPT !.hid = provHist, !.pc = "watch"]
                    ELSE [watchOp EXCEPT !.pc = "disable"]
    /\ UNCHANGED <<pipeVars, tokenVars, senderVars, fetchVars, watchEnabled, watchSince>>

\* subscribeToWatch: gmail.users.watch
WatchRequest ==
    /\ watchOp.pc = "watch"
    /\ \E outcome \in {"ok", "error"} :
         /\ watchSince' = IF outcome = "ok" THEN provHist ELSE watchSince
         /\ watchOp' = [watchOp EXCEPT !.pc = IF outcome = "ok" THEN "store" ELSE "disable"]
    /\ UNCHANGED <<pipeVars, tokenVars, senderVars, fetchVars, watchEnabled>>

\* the caller's update of the users row: watch_history_id, watch_expiration,
\* watch_enabled = true; a rejected update is thrown to the catch
WatchStore ==
    /\ watchOp.pc = "store"
    /\ \E db \in {"ok", "error"} :
         /\ cursor' = IF db = "ok" THEN WatchBaseline(watchOp.hid, provHist) ELSE cursor
         /\ watchEnabled' = (db = "ok" \/ watchEnabled)
         /\ watchOp' = [watchOp EXCEPT !.pc = IF db = "ok" THEN "done" ELSE "disable",
                                       !.ok = (db = "ok")]
    /\ UNCHANGED <<provHist, inbox, accessTok, refreshTok, accounts, emails, tasks, run,
                   anyFault, tokenVars, senderVars, fetchVars, watchSince>>

\* the catch: watch_enabled = false, a rejected update is logged
WatchDisable ==
    /\ watchOp.pc = "disable"
    /\ \E db \in {"ok", "error"} :
         watchEnabled' = (db # "ok" /\ watchEnabled)
    /\ watchOp' = [watchOp EXCEPT !.pc = "done"]
    /\ UNCHANGED <<pipeVars, tokenVars, senderVars, fetchVars, watchSince>>

\* one webhook request beside the watch subscriptions
NextWatch ==
    \/ Arrive
    \/ Receive(1)
    \/ Lookup(1)
    \/ History(1)
    \/ HistoryRetry(1)
    \/ Get(1)
    \/ Empty(1)
    \/ Exists(1)
    \/ InsertExists(1)
    \/ AccountFind(1)
    \/ AccountCreate(1)
    \/ Insert(1)
    \/ Archive(1)
    \/ Advance(1)
    \/ WatchStart
    \/ WatchProfile
    \/ WatchRequest
    \/ WatchStore
    \/ WatchDisable

SpecWatch == InitWatch /\ [][NextWatch]_vars

\* the sender of the message is extracted from its From header
ParseSender ==
    /\ sender = Unparsed
    /\ sender' = ExtractSender(from)
    /\ UNCHANGED <<pipeVars, tokenVars, watchVars, fetchVars, from, payload, parsed>>

NextSender == ParseSender

SpecSender == InitSender /\ [][NextSender]_vars

\* ------------------------------------------------------------ message body
\* messages.get has returned a message with some payload
InitParts ==
    /\ PipelineAtRest
    /\ TokensAtRest
    /\ WatchAtRest
    /\ FetchAtRest
    /\ from = <<>>
    /\ sender = Unparsed
    /\ payload \in Payloads
    /\ parsed = NotParsed

\* parseEmailData(messageResponse.data)
ParseParts ==
    /\ ~parsed.seen
    /\ parsed' = parseEmailData(payload)
    /\ UNCHANGED <<pipeVars, tokenVars, watchVars, fetchVars, from, sender, payload>>

NextParts == ParseParts

SpecParts == InitParts /\ [][NextParts]_vars

\* ------------------------------------------------------------ history records
\* the records of one history.list answer, and the messagesAdded of one record
MaxRecords == 2

\* messagesAdded of one record: the ids of the messages, in order
AddedLists == UNION {[1..n -> Msgs] : n \in 0..MaxRecords}

\* historyResponse.data.history
Histories == UNION {[1..n -> AddedLists] : n \in 0..MaxRecords}

RECURSIVE AllIds(_)
\* every messageAdded.message.id of the records in order, repeats kept
AllIds(h) ==
    IF h = <<>> THEN <<>> ELSE AllIds(SubSeq(h, 1, Len(h) - 1)) \o h[Len(h)]

\* messageIds.add(id): a Set keeps the first insertion of a value
SetAdd(ids, id) ==
    IF \E k \in 1..Len(ids) : ids[k] = id THEN ids ELSE Append(ids, id)

RECURSIVE AddAll(_, _)
AddAll(ids, added) ==
    IF added = <<>> THEN ids ELSE AddAll(SetAdd(ids, Head(added)), Tail(added))

RECURSIVE messageIds(_)
\* the Set of ids the two loops over the records build, as Array.from lists it
messageIds(h) ==
    IF h = <<>> THEN <<>> ELSE AddAll(messageIds(SubSeq(h, 1, Len(h) - 1)), h[Len(h)])

\* messages.get of every id: the ones that failed or did not parse give null
\* and are filtered out, then the ones whose labels lack INBOX
fetchEmailsSinceHistoryId(h, lost, labelled) ==
    SelectSeq(messageIds(h), LAMBDA m : m \notin lost /\ m \in labelled)

\* history.list has answered with some records; the messages carry INBOX or not
InitFetch ==
    /\ provHist = 0
    /\ inbox \in SUBSET Msgs
    /\ cursor = NoCursor
    /\ accessTok = TRUE
    /\ refreshTok = TRUE
    /\ accounts = {}
    /\ emails = EmptyBag
    /\ tasks = <<>>
    /\ run = [r \in Runs |-> IdleRun]
    /\ anyFault = FALSE
    /\ TokensAtRest
    /\ SenderAtRest
    /\ WatchAtRest
    /\ history \in Histories
    /\ fetched = NotFetched

\* fetchEmailsSinceHistoryId from the history.list answer on
FetchSince ==
    /\ ~fetched.seen
    /\ \E lost \in SUBSET Msgs :
         fetched' = [seen |-> TRUE,
                     emails |-> fetchEmailsSinceHistoryId(history, lost, inbox)]
    /\ UNCHANGED <<pipeVars, tokenVars, senderVars, watchVars, history>>

NextFetch == FetchSince

SpecFetch == InitFetch /\ [][NextFetch]_vars

\* one worker job and the summarisation requests, repeated ones included
NextEnrich ==
    \/ Arrive
    \/ WorkerReceive(1)
    \/ WorkerLookup(1)
    \/ History(1)
    \/ HistoryRetry(1)
    \/ Get(1)
    \/ Exists(1)
    \/ InsertExists(1)
    \/ AccountFind(1)
    \/ AccountCreate(1)
    \/ Insert(1)
    \/ \E t \in 1..MaxTasks : TriggerFails(t)
    \/ \E t \in 1..MaxTasks : Redeliver(t)
    \/ \E t \in 1..MaxTasks : Summarize(t)
    \/ \E t \in 1..MaxTasks : UpdateSummary(t)

SpecEnrich == Init /\ [][NextEnrich]_vars

NextToken ==
    \/ Tick
    \/ \E o \in Ops : OpStart(o)
    \/ \E o \in Ops : Exchange(o)
    \/ \E o \in Ops : Callback(o)
    \/ \E o \in Ops : EventCallback(o)
    \/ Login

SpecToken == InitToken /\ [][NextToken]_vars

\* ============================================================ properties
\* the messages a run was handed by its fetch
Fetched(r) == {run[r].newEmails[k] : k \in 1..Len(run[r].newEmails)}

\* number of rows of the user for message m
Copies(m) == Cardinality(RowsOf(m))

\* the step in which run r answers its request
Finishes(r) == run[r].pc # "done" /\ run'[r].pc = "done"

\* C1: whatever runs have happened and however they interleaved, the emails
\* table holds at most one row of the user for each Gmail message id.
C1_DedupInvariant == \A m \in Msgs : Copies(m) <= 1

\* two overlapping runs fetched the same message; one imported it, the insert
\* of the other was refused by the database, which itself had no fault
C1_Witness ==
    \E r \in Runs : \E q \in Runs \ {r} :
        /\ run[r].pc = "done" /\ run[q].pc = "done"
        /\ run[r].overlap /\ run[q].overlap
        /\ ~anyFault
        /\ Fetched(r) \cap Fetched(q) # {}
        /\ run[r].imported >= 1
        /\ run[q].failed >= 1
        /\ \E m \in Fetched(r) \cap Fetched(q) : Copies(m) = 1

\* C2 (as the specification states it): no step moves the stored cursor
\* backward; a notification whose historyId is not newer than the cursor
\* leaves the cursor where it is.
C2_CursorNeverDecreases == [][cursor' >= cursor]_vars

\* a stale notification was handled to the end and the cursor went back
C2_Witness ==
    \E r \in Runs :
        /\ run[r].pc = "done" /\ run[r].cause \in {"complete", "empty"}
        /\ run[r].stored # NoCursor
        /\ run[r].hid < run[r].stored
        /\ cursor = run[r].hid

\* C3: a run counts a message as imported only when the user had no row for
\* it, and that step leaves exactly one; and a run that handles a notification
\* again, the cursor standing at that notification's historyId, changes no
\* row of any message up to that historyId: the stored set is the one the
\* first handling left, and the replay imports none of its messages.
C3_IdempotentReplay ==
    [][\A r \in Runs :
         /\ run'[r].imported > run[r].imported =>
               LET m == run[r].newEmails[run[r].i]
               IN Copies(m) = 0 /\ Cardinality(RowsIn(emails', m)) = 1
         /\ (run[r].stored = run[r].hid /\ Active(run[r]) /\ run'[r] # run[r]) =>
               /\ \A m \in 1..run[r].hid : RowsIn(emails', m) = RowsOf(m)
               /\ (provHist = run[r].hid => run'[r].imported = 0 /\ emails' = emails)
      ]_vars

\* the notification was handled once, storing its message, and then again:
\* the second run fetched nothing, imported nothing, and the row is there
C3_Witness ==
    \E r \in Runs : \E q \in Runs \ {r} :
        /\ run[q].pc = "done" /\ run[q].cause = "complete" /\ run[q].imported >= 1
        /\ run[r].pc = "done" /\ run[r].cause = "empty"
        /\ run[r].hid = run[q].hid /\ run[r].stored = run[r].hid
        /\ ~run[r].overlap
        /\ run[r].imported = 0
        /\ \A m \in Fetched(q) : Copies(m) = 1

\* C4 (as the specification states it): an operation that finds the token in
\* need of refresh while another operation's refresh is in flight waits for
\* that refresh and performs no refresh-grant exchange of its own.
C4_SingleFlight == \A o \in Ops : op[o].joined => ~op[o].exchanged

\* two operations found the same token expiring and each exchanged the
\* refresh token
C4_Witness ==
    \E o \in Ops : \E p \in Ops \ {o} :
        /\ op[o].joined /\ op[o].exchanged /\ op[p].exchanged
        /\ exchanges = 2

\* a step of the worker run r
RunStep(r) ==
    \/ WorkerLookup(r) \/ History(r) \/ HistoryRetry(r) \/ Get(r) \/ Exists(r) \/ InsertExists(r)
    \/ AccountFind(r) \/ AccountCreate(r) \/ Insert(r)

\* C5: the worker triggers one summarisation for every message it imports and
\* waits for none of them: whatever the state of the tasks, a worker run that
\* has not answered yet can take its next step.
C5_EnrichmentNotAwaited ==
    \A r \in Runs :
        run[r].kind = "worker" =>
            /\ Cardinality(run[r].launched) = run[r].imported
            /\ Active(run[r]) => ENABLED RunStep(r)

\* the run has answered with its counts while the summarisation of a message
\* it imported has not been served yet
C5_Witness ==
    \E r \in Runs :
        /\ run[r].kind = "worker" /\ run[r].pc = "done" /\ run[r].cause = "complete"
        /\ run[r].imported >= 1
        /\ \E t \in 1..Len(tasks) :
              tasks[t].msg \in run[r].launched /\ tasks[t].st = "sent"

\* causes of an answer that are failures inside the handler
InternalFailures == {"userNotFound", "noAccessToken", "noRefreshToken", "fetchFailed",
                     "historyExpired", "exception"}

\* C6: the webhook answers 200 on every internal failure (user not found,
\* tokens missing, history fetch failed, exception while processing); it
\* answers anything else, 400, only for an envelope it cannot parse or that
\* lacks its fields.
C6_AckOnInternalFailure ==
    \A r \in Runs :
        (run[r].kind = "webhook" /\ run[r].pc = "done") =>
            /\ run[r].status \in {200, 400}
            /\ run[r].status = 400 <=> ~run[r].envOk
            /\ run[r].cause \in InternalFailures => run[r].status = 200 /\ ~run[r].success

\* one notification was acknowledged although its history fetch failed, another
\* was rejected for its envelope
C6_Witness ==
    \E r \in Runs : \E q \in Runs \ {r} :
        /\ run[r].pc = "done" /\ run[r].cause = "fetchFailed" /\ run[r].status = 200
        /\ run[q].pc = "done" /\ run[q].cause = "envelope" /\ run[q].status = 400

\* C7: a run that found no stored cursor fetches from its notification's
\* historyId minus one; if it is handed exactly one inbox message, with no
\* other run at work beside it and no database fault, it answers imported = 1,
\* skipped = 0, failed = 0 and the cursor is the notification's historyId.
C7_ScenarioA ==
    [][\A r \in Runs :
         /\ (run'[r].kind = "webhook" /\ run'[r].pc = "history"
                /\ run'[r].stored = NoCursor) =>
               run'[r].start = run'[r].hid - 1
         /\ (Finishes(r) /\ run'[r].kind = "webhook" /\ run'[r].cause = "complete"
                /\ run'[r].stored = NoCursor /\ Len(run'[r].newEmails) = 1
                /\ ~run'[r].overlap /\ ~anyFault') =>
               /\ run'[r].imported = 1 /\ run'[r].skipped = 0 /\ run'[r].failed = 0
               /\ run'[r].status = 200 /\ run'[r].success
               /\ cursor' = run'[r].hid
      ]_vars

\* the scenario: no cursor, the fetch from historyId - 1 gave one message, the
\* run is over with 1/0/0 and the cursor stands at the historyId
C7_Witness ==
    \E r \in Runs :
        /\ run[r].pc = "done" /\ run[r].cause = "complete"
        /\ run[r].stored = NoCursor /\ run[r].start = run[r].hid - 1
        /\ Len(run[r].newEmails) = 1
        /\ ~run[r].overlap /\ ~anyFault
        /\ run[r].imported = 1 /\ run[r].skipped = 0 /\ run[r].failed = 0
        /\ cursor = run[r].hid

\* the replay of a notification: the cursor stood at its historyId when the run
\* read it, the mailbox has nothing newer, no other run is at work beside it
ReplayEnds(r) ==
    /\ Finishes(r) /\ run'[r].kind = "webhook" /\ run'[r].success
    /\ run'[r].cause \in {"complete", "empty"}
    /\ run'[r].stored = run'[r].hid
    /\ provHist' = run'[r].hid
    /\ ~run'[r].overlap

\* C8 (as the specification states it): the replay answers imported = 0,
\* skipped = 1, failed = 0 and the cursor stays at the historyId.
C8_ScenarioB_AsStated ==
    [][\A r \in Runs :
         ReplayEnds(r) =>
            /\ run'[r].imported = 0 /\ run'[r].skipped = 1 /\ run'[r].failed = 0
            /\ cursor' = run'[r].hid
      ]_vars

\* C8 (amended): the replay fetches from the cursor, which gives nothing; it
\* answers by the empty-result branch with imported = 0, skipped = 0,
\* failed = 0 and the cursor stays at the historyId.
C8_ScenarioB ==
    [][\A r \in Runs :
         ReplayEnds(r) =>
            /\ run'[r].cause = "empty" /\ run'[r].newEmails = <<>>
            /\ run'[r].imported = 0 /\ run'[r].skipped = 0 /\ run'[r].failed = 0
            /\ cursor' = run'[r].hid
      ]_vars

\* the first run stored its message and advanced the cursor; the replay is
\* over with 0/0/0 and the cursor where it was
C8_Witness ==
    \E r \in Runs : \E q \in Runs \ {r} :
        /\ run[q].pc = "done" /\ run[q].cause = "complete"
        /\ run[q].imported = 1 /\ run[q].archived + run[q].archiveFailed = 1
        /\ run[r].pc = "done" /\ run[r].cause = "empty" /\ run[r].success
        /\ run[r].hid = run[q].hid /\ run[r].stored = run[r].hid
        /\ provHist = run[r].hid
        /\ ~run[r].overlap /\ ~anyFault
        /\ run[r].imported = 0 /\ run[r].skipped = 0 /\ run[r].failed = 0
        /\ cursor = run[r].hid

\* C9 (as the specification states it): a history fetch rejected as expired
\* does not fail the run: the run answers a normal result and the cursor is
\* re-baselined to the provider's current historyId.
C9_ScenarioC ==
    [][\A r \in Runs :
         (Finishes(r) /\ run'[r].cause = "historyExpired") =>
            /\ run'[r].success
            /\ cursor' = provHist'
      ]_vars

\* the fetch was rejected as expired: the run answered success: false and the
\* cursor is where it was
C9_Witness ==
    \E r \in Runs :
        /\ run[r].pc = "done" /\ run[r].cause = "historyExpired"
        /\ ~run[r].success
        /\ run[r].stored # NoCursor /\ cursor = run[r].stored /\ cursor < provHist

\* a task whose request has been answered, or was never delivered
Settled(t) == tasks[t].st \in {"saved", "failed", "lost"}

\* C10 (as the specification states it): when the completion call for an
\* imported message fails, the row of the message is there and its summary is
\* null once the task has settled, and stays null.
C10_ScenarioD ==
    \A t \in 1..Len(tasks) :
        (tasks[t].llmFailed /\ Settled(t)) =>
            /\ Copies(tasks[t].msg) = 1
            /\ \A x \in RowsOf(tasks[t].msg) : x[1].summary = "none"

\* the completion call failed and the row carries the fallback summary
C10_Witness ==
    \E t \in 1..Len(tasks) :
        /\ tasks[t].llmFailed /\ tasks[t].st = "saved"
        /\ \E x \in RowsOf(tasks[t].msg) : x[1].summary = "fallback"

\* C11: once a refresh token is stored for the user, no write of the users
\* row (the awaited write-back after a refresh, the write-back of the 'tokens'
\* event, a login of the existing user in which Google sends no refresh token)
\* leaves the column empty.
C11_RefreshTokenPreserved == [][refreshTok => refreshTok']_vars

\* the event's write-back and a login both came without a refresh token, and
\* the stored one is still there
C11_Witness == refreshTok /\ {"event", "login"} \subseteq kept

\* C12 (as the specification states it): every call of the mail API that is
\* answered 401 is followed by one forced refresh and one retry of the call:
\* the history fetch is retried once, and an id whose messages.modify was
\* answered 401 is not given up at once.
C12_RetryOnceOn401 ==
    \A r \in Runs :
        /\ run[r].retried = run[r].forced
        /\ run[r].unauth <= 1 + run[r].retried
        /\ "denied" \notin run[r].archNote

\* the archive call was answered 401 for an id: the id was counted as failed,
\* the history fetch of the same run never had to retry
C12_Witness ==
    \E r \in Runs :
        /\ run[r].pc = "done" /\ run[r].cause = "complete"
        /\ "denied" \in run[r].archNote
        /\ run[r].archiveFailed >= 1
        /\ run[r].retried = 0

\* the summaries of the rows of message m
SummariesIn(table, m) == {row.summary : row \in {x \in BagToSet(table) : x.msg = m}}

\* C13: the summary of a stored message changes only from null: once a row
\* has a summary, no later summarisation request for the same message, served
\* after or beside the first, replaces it.
C13_SummarySetOnce ==
    [][\A m \in Msgs :
         \A s \in SummariesIn(emails, m) \ {"none"} : SummariesIn(emails', m) = {s}
      ]_vars

\* two requests for one message were served to the end with different
\* summaries; the row has one of them
C13_Witness ==
    \E t \in 1..Len(tasks) : \E u \in 1..Len(tasks) :
        /\ t # u /\ tasks[t].msg = tasks[u].msg
        /\ tasks[t].st = "saved" /\ tasks[u].st = "saved"
        /\ tasks[t].result # tasks[u].result
        /\ SummariesIn(emails, tasks[t].msg) = {tasks[t].result}

\* request t ends in a failure with this step: it is lost on the way, the
\* route answers 500 (no API key, failed update), or the summarizer fails
TaskFails(t) ==
    \/ tasks'[t].st \in {"lost", "failed"} /\ tasks[t].st \notin {"lost", "failed"}
    \/ tasks'[t].llmFailed /\ ~tasks[t].llmFailed

\* C14: a failure inside a summarisation task (request lost, summarizer
\* error, failed write) leaves every job as it is: its counts, its position
\* and its outcome do not change with that step.
C14_TaskFailureContained ==
    [][(\E t \in 1..Len(tasks) : TaskFails(t)) => run' = run]_vars

\* a job ended well with two imports, one of its requests was lost and the
\* other failed in the route
C14_Witness ==
    /\ \E r \in Runs : /\ run[r].pc = "done" /\ run[r].success
                       /\ run[r].imported = 2 /\ run[r].failed = 0
    /\ \E t \in 1..Len(tasks) : \E u \in 1..Len(tasks) :
         tasks[t].st = "lost" /\ tasks[u].st = "failed"

\* C15 (as the specification states it): after archiveEmails returned, every
\* requested id is counted once, as archived or as failed, and no id whose
\* label removal was rejected because the message is already archived or the
\* id is stale is among the failed ones.
C15_ArchiveBestEffort ==
    \A r \in Runs :
        (run[r].kind = "webhook" /\ run[r].pc \in {"advance", "done"}
            /\ run[r].archived + run[r].archiveFailed > 0)
        => /\ run[r].archived + run[r].archiveFailed = run[r].imported
           /\ "stale" \notin run[r].archNote

\* archiveEmails put an id rejected as stale or already archived in failed;
\* the rows of the run are still stored
C15_Witness ==
    \E r \in Runs :
        /\ run[r].pc = "done" /\ run[r].cause = "complete"
        /\ run[r].archNote = {"stale"}
        /\ run[r].archived = 1 /\ run[r].archiveFailed = 1
        /\ \A m \in Msgs : Copies(m) = 1

\* s has the form Name <address>: a name of letters and single inner
\* blanks, one blank, and an address of letters, "@" and "." in angle brackets
IsLetters(s) == s # <<>> /\ \A k \in 1..Len(s) : IsWord(s[k]) \/ IsSpace(s[k])
IsPlainName(s) == IsLetters(s) /\ ~IsSpace(s[1]) /\ ~IsSpace(s[Len(s)])
IsPlainAddr(s) == s # <<>> /\ \A k \in 1..Len(s) : IsWord(s[k]) \/ s[k] \in {"@", "."}
NameAddrSplits(s) ==
    {k \in 1..(Len(s) - 4) :
        /\ IsPlainName(SubSeq(s, 1, k))
        /\ s[k + 1] = " " /\ s[k + 2] = "<" /\ s[Len(s)] = ">"
        /\ IsPlainAddr(SubSeq(s, k + 3, Len(s) - 1))}

\* C16: Scenario E. Once the sender of a header is extracted: a header
\* Name <address> gives senderName = Name and senderEmail = address, so
\* "Jane Doe <jane@x.com>" gives "Jane Doe" and "jane@x.com"; a header with
\* no angle bracket and no @ gives senderEmail = the header and no
\* senderName, so "broken" gives "broken" and no name.
C16_ScenarioE ==
    sender # Unparsed =>
        /\ \A k \in NameAddrSplits(from) :
             sender = [senderName |-> SubSeq(from, 1, k),
                       senderEmail |-> SubSeq(from, k + 3, Len(from) - 1)]
        /\ (from # <<>> /\ \A k \in 1..Len(from) : from[k] \notin {"<", ">", "@"})
             => sender = [senderName |-> Undefined, senderEmail |-> from]
        /\ from = JaneDoeHeader
             => sender = [senderName |-> <<"J", "a", "n", "e", " ", "D", "o", "e">>,
                          senderEmail |-> <<"j", "a", "n", "e", "@", "x", ".", "c", "o", "m">>]
        /\ from = BrokenHeader
             => sender = [senderName |-> Undefined, senderEmail |-> BrokenHeader]

\* the sender of "Jane Doe <jane@x.com>" has been extracted
C16_Witness ==
    /\ from = JaneDoeHeader
    /\ sender # Unparsed
    /\ NameAddrSplits(from) = {8}

TasksOf(r) == {t \in 1..Len(tasks) : tasks[t].by = r}

\* C19 (as the specification states it): in a webhook request the ids kept
\* for the archive call are the messages the request has imported, each with
\* a stored row, and the request has started one summarisation task for each
\* of them: enrichmentTasksStarted = imported.
C19_EnrichAndArchiveImported ==
    \A r \in Runs :
        run[r].kind = "webhook" =>
            /\ run[r].pc \notin {"idle", "done"} =>
                 /\ Len(run[r].importedIds) = run[r].imported
                 /\ \A k \in 1..Len(run[r].importedIds) :
                      Copies(run[r].importedIds[k]) >= 1
            /\ Cardinality(TasksOf(r)) = run[r].imported
            /\ Cardinality(run[r].launched) = run[r].imported

\* a webhook request imported and archived two messages and ended; no
\* summarisation task exists and both rows are without a summary
C19_Witness ==
    /\ \E r \in Runs :
         /\ run[r].kind = "webhook" /\ run[r].pc = "done" /\ run[r].cause = "complete"
         /\ run[r].imported = 2 /\ run[r].archived = 2
         /\ run[r].launched = {}
    /\ tasks = <<>>
    /\ \A m \in Msgs : SummariesIn(emails, m) = {"none"}

\* C20 (as the specification states it): when two webhook requests with
\* historyIds h1 < h2 were handled side by side and both have updated the
\* stored historyId without a database fault, the stored historyId is h2.
C20_LaterHistoryIdWins ==
    \A r \in Runs : \A q \in Runs \ {r} :
        (/\ run[r].kind = "webhook" /\ run[q].kind = "webhook"
         /\ run[r].pc = "done" /\ run[q].pc = "done"
         /\ run[r].overlap /\ run[q].overlap
         /\ run[r].writes = 1 /\ run[q].writes = 1
         /\ ~anyFault
         /\ run[r].hid < run[q].hid)
        => cursor = run[q].hid

\* both requests read the same stored historyId, both updated it, and the
\* one with the smaller historyId was the last to do so
C20_Witness ==
    \E r \in Runs : \E q \in Runs \ {r} :
        /\ run[r].pc = "done" /\ run[q].pc = "done"
        /\ run[r].overlap /\ run[q].overlap
        /\ run[r].stored = run[q].stored
        /\ run[r].writes = 1 /\ run[q].writes = 1
        /\ ~anyFault
        /\ run[r].hid < run[q].hid
        /\ cursor = run[r].hid

\* C21 (as the specification states it): every step that changes the stored
\* historyId is the last step of a webhook request, its cursor update after
\* the loop and the archive call or after an empty fetch; no step of a watch
\* subscription changes it.
C21_CursorWrittenByPipelineOnly ==
    [][cursor' # cursor =>
         \E r \in Runs : run[r].pc \in {"advance", "empty"} /\ Finishes(r)
      ]_vars

\* a watch subscription has stored the historyId it read and no webhook
\* request has issued a cursor update
C21_Witness ==
    /\ watchOp.pc = "done" /\ watchOp.ok
    /\ cursor = watchOp.hid
    /\ \A r \in Runs : run[r].writes = 0

\* C22 (as the specification states it): a webhook request that ended on an
\* authentication failure (no refresh token, or a fetch that failed after a
\* 401) was answered 200, issued no cursor update, and left the user's
\* watch_enabled false.
C22_AuthFailureDisablesWatch ==
    \A r \in Runs :
        (/\ run[r].kind = "webhook" /\ run[r].pc = "done"
         /\ \/ run[r].cause = "noRefreshToken"
            \/ run[r].cause = "fetchFailed" /\ run[r].unauth >= 1)
        => /\ run[r].status = 200
           /\ run[r].writes = 0
           /\ ~watchEnabled

\* the watch was enabled by a subscription, then a request failed after a
\* 401 and was acknowledged; watch_enabled is still true
C22_Witness ==
    \E r \in Runs :
        /\ run[r].pc = "done" /\ run[r].cause = "fetchFailed" /\ run[r].unauth >= 1
        /\ run[r].status = 200 /\ run[r].writes = 0
        /\ watchOp.pc = "done" /\ watchOp.ok
        /\ watchEnabled

\* C23 (as the specification states it): an operation that gets past the
\* token checks goes on with the access token it holds if and only if
\* now < expiry - 5 minutes; otherwise it awaits getAccessToken, and when
\* that returns a token a refresh-grant exchange has been made.
C23_RefreshUnlessValid ==
    [][\A o \in Ops :
         /\ (op[o].pc = "idle" /\ op'[o].pc \notin {"idle", "rejected"}) =>
              /\ op'[o].pc = "done" <=>
                    (dbExpiry # NoExpiry /\ now < dbExpiry - FiveMinutes)
              /\ op'[o].pc # "done" => op'[o].pc = "exchange"
         /\ (op[o].pc = "exchange" /\ op'[o].pc = "callback") =>
              exchanges' = exchanges + 1
      ]_vars

\* an operation with no expiry known awaited getAccessToken and went on to
\* write the token back; no exchange has been made
C23_Witness ==
    \E o \in Ops :
        /\ op[o].pc = "callback"
        /\ ~op[o].exchanged
        /\ exchanges = 0

\* the parts without parts of a tree, in the order of a walk of the whole tree
RECURSIVE Walk(_)
RECURSIVE WalkAll(_, _)
Walk(p) == IF p.parts = <<>> THEN <<p>> ELSE WalkAll(p.parts, 1)
WalkAll(ps, k) == IF k > Len(ps) THEN <<>> ELSE Walk(ps[k]) \o WalkAll(ps, k + 1)

\* the content of the first part of the kind met in the walk
FirstOfKind(p, mime) ==
    LET found == SelectSeq(Walk(p), LAMBDA q : q.mime = mime /\ q.data # 0)
    IN IF found = <<>> THEN NoContent ELSE Decode(found[1])

\* C24 (as the specification states it): for a multipart payload the
\* extracted html is the first text/html part and the extracted text the
\* first text/plain part met in a walk of the whole tree, each whatever was
\* found of the other kind; the tag-stripped html is the text only when the
\* tree has no text/plain part.
C24_FirstPartsAtAnyDepth ==
    (parsed.seen /\ payload.parts # <<>>) =>
        LET html == FirstOfKind(payload, "text/html")
            plain == FirstOfKind(payload, "text/plain")
        IN /\ parsed.html = html
           /\ parsed.text = IF plain # NoContent THEN plain
                            ELSE IF html # NoContent THEN stripHtmlTags(html)
                            ELSE NoContent

\* a message with a text/plain part beside a nested part that holds the
\* text/html part was parsed: no html was extracted
C24_Witness ==
    /\ payload = Node(<<Leaf("text/plain", 1, FALSE),
                        Node(<<Leaf("text/html", 1, FALSE)>>)>>)
    /\ parsed.seen
    /\ parsed.html = NoContent

\* C25 (as the specification states it): hasAttachments is true if and only
\* if some part of the tree, at any depth, has a non-empty filename.
C25_AttachmentAtAnyDepth ==
    parsed.seen =>
        (parsed.hasAttachments <=>
            \E k \in 1..Len(Walk(payload)) : Walk(payload)[k].named)

\* a message whose only named part lies inside a nested multipart part was
\* parsed: hasAttachments is false
C25_Witness ==
    /\ payload = Node(<<Leaf("text/plain", 1, FALSE),
                        Node(<<Leaf("other", 1, TRUE)>>)>>)
    /\ parsed.seen
    /\ ~parsed.hasAttachments


\* C26: fetchEmailsSinceHistoryId returns each added message at most once,
\* even when its id is in several history records, and every message it
\* returns carries the INBOX label at the time of the fetch.
C26_FetchedOnceAndInInbox ==
    fetched.seen =>
        /\ \A j, k \in 1..Len(fetched.emails) :
               fetched.emails[j] = fetched.emails[k] => j = k
        /\ \A k \in 1..Len(fetched.emails) : fetched.emails[k] \in inbox

\* a message that two records list, and a second one without INBOX, fetched
C26_Witness ==
    /\ fetched.seen
    /\ history = <<(<<1>>), (<<1, 2>>)>>
    /\ inbox = {1}
    /\ fetched.emails = <<1>>


\* C27: a run whose history fetch returned no messages still issues the
\* update of the stored historyId with the notification's historyId and
\* answers with imported = skipped = failed = 0, in the webhook and in the
\* worker alike.
C27_EmptyFetchStillAdvances ==
    [][\A r \in Runs :
         (Finishes(r) /\ run'[r].cause = "empty") =>
            /\ run'[r].writes = 1
            /\ cursor' = run[r].hid \/ (anyFault' /\ cursor' = cursor)
            /\ run'[r].imported = 0 /\ run'[r].skipped = 0 /\ run'[r].failed = 0
      ]_vars

\* a worker job has answered with zero counts for a historyId ahead of the
\* stored one, and has issued no update
C27_Witness ==
    \E r \in Runs :
        /\ run[r].kind = "worker" /\ run[r].pc = "done" /\ run[r].cause = "empty"
        /\ run[r].fetchOk /\ run[r].writes = 0
        /\ run[r].imported = 0 /\ run[r].skipped = 0 /\ run[r].failed = 0
        /\ cursor < run[r].hid
        /\ ~anyFault


\* the messages of the fetch the per-message loop has dealt with
Counted(rec) == rec.imported + rec.skipped + rec.failed

\* C28: in a run that has reached the per-message loop every fetched message
\* the loop is done with is counted in exactly one of imported, skipped and
\* failed, so that after the loop the three add up to the number fetched; and
\* in a webhook request archived + archiveFailed = imported from the archive
\* step on, its answer included, also when the archive call has thrown.
C28_CountsPartition ==
    \A r \in Runs :
        /\ run[r].pc \in {"exists", "insExists", "acctFind", "acctCreate", "insert"} =>
              Counted(run[r]) = run[r].i - 1
        /\ (run[r].pc \in {"archive", "advance"}
              \/ (run[r].pc = "done" /\ run[r].cause = "complete")) =>
              Counted(run[r]) = Len(run[r].newEmails)
        /\ (run[r].kind = "webhook"
              /\ (run[r].pc = "advance"
                    \/ (run[r].pc = "done" /\ run[r].cause = "complete"))) =>
              run[r].archived + run[r].archiveFailed = run[r].imported

\* a request has answered after importing one message, failing on the
\* other, and an archive call that did not archive the import
C28_Witness ==
    \E r \in Runs :
        /\ run[r].kind = "webhook" /\ run[r].pc = "done" /\ run[r].cause = "complete"
        /\ Len(run[r].newEmails) = 2
        /\ run[r].imported = 1 /\ run[r].failed = 1 /\ run[r].skipped = 0
        /\ run[r].archived = 0 /\ run[r].archiveFailed = 1


\* the messages the mailbox has added after the watch in force was set
AddedSinceWatch == (watchSince + 1)..provHist

\* C29: the historyId a successful subscription or renewal stores is the one
\* subscribeToWatch read before the watch request, a position of the mailbox
\* not after the one at which the watch was set; and a notification request
\* that reads the stored historyId as the subscription left it starts its
\* history listing at or before that position, so that the listing holds
\* every message added after the watch was set.
C29_WatchBaselineBeforeWatch ==
    [][/\ (watchOp.pc = "store" /\ watchOp'.pc = "done" /\ watchOp'.ok) =>
             /\ cursor' = watchOp.hid
             /\ cursor' <= watchSince'
       /\ \A r \in Runs :
             (/\ run[r].pc = "lookup" /\ run'[r].pc = "history"
              /\ watchOp.pc = "done" /\ watchOp.ok /\ cursor = watchOp.hid) =>
                 /\ run'[r].start <= watchSince
                 /\ \A m \in AddedSinceWatch :
                       \E k \in 1..Len(HistoryList(run'[r].start)) :
                           HistoryList(run'[r].start)[k] = m
      ]_vars

\* the first notification after a subscription lists, from the historyId the
\* subscription stored, a message that was added after the watch was set
C29_Witness ==
    \E r \in Runs :
        /\ watchOp.pc = "done" /\ watchOp.ok
        /\ run[r].kind = "webhook" /\ run[r].pc = "get"
        /\ run[r].stored = watchOp.hid /\ run[r].start = watchOp.hid
        /\ run[r].start <= watchSince
        /\ \E k \in 1..Len(run[r].ids) : run[r].ids[k] \in AddedSinceWatch


\* the messages a history listing from start holds
Listed(start) == {HistoryList(start)[k] : k \in 1..Len(HistoryList(start))}

\* the fetch has dropped an id without failing: the request goes on with the
\* rest, and no counter holds the dropped ones
DroppedSilently(rec) ==
    /\ rec.fetchOk
    /\ rec.dropped \cap {rec.newEmails[k] : k \in 1..Len(rec.newEmails)} = {}
    /\ Counted(rec) <= Len(rec.newEmails)
    /\ rec.pc = "done" => rec.cause \in {"complete", "empty", "exception"}

\* the request has issued its update of the stored historyId, and the
\* stored historyId is the one it wrote
StoredItsHistoryId(rec) ==
    rec.pc = "done" /\ rec.writes = 1 /\ cursor = rec.hid

\* C30 as stated: a message whose get failed is left out of the result, the
\* fetch does not fail and no counter counts it; and once the request has
\* stored the notification's historyId, no listing from the stored historyId
\* holds the message.
C30_DroppedThenOutOfRange ==
    \A r \in Runs :
        /\ run[r].dropped # {} => DroppedSilently(run[r])
        /\ StoredItsHistoryId(run[r]) => run[r].dropped \cap Listed(cursor) = {}

\* C30, amended: the same for the dropped messages that are not after the
\* notification's historyId; a dropped message that was added after it is
\* still listed from the stored historyId.
C30_DroppedUpToNotification ==
    \A r \in Runs :
        /\ run[r].dropped # {} => DroppedSilently(run[r])
        /\ StoredItsHistoryId(run[r]) =>
              \A m \in run[r].dropped :
                  IF m <= run[r].hid THEN m \notin Listed(cursor)
                  ELSE m \in Listed(cursor)

\* a request has imported one message of two, the get of the other having
\* failed, counted no failure and stored its historyId, which is that of the
\* dropped message: the message is in the inbox and no longer listed
C30_Witness ==
    \E r \in Runs :
        /\ run[r].kind = "webhook" /\ run[r].pc = "done" /\ run[r].cause = "complete"
        /\ run[r].dropped = {1} /\ run[r].hid = 1
        /\ run[r].newEmails = <<2>> /\ run[r].imported = 1 /\ run[r].failed = 0
        /\ cursor = 1 /\ 1 \in inbox
        /\ Listed(cursor) = {2}

====
